---- MODULE Spec2Model ----
(***************************************************************************)
(* State-machine model of the robot_vision scripts:                        *)
(*   generate_blender.py     - the synthetic dataset generator (main loop, *)
(*                             ensure_light, import_model, calc_yolo_bbox) *)
(*   background_generator.py - the background download loop                *)
(* The rendering host (scene objects, image data blocks, import, render)   *)
(* is modelled by the state the scripts read and write through it.         *)
(***************************************************************************)
EXTENDS Integers, Sequences, FiniteSets, TLC

VARIABLES
    pc,               \* position of the running script
    MODELS,           \* generate_blender.MODELS (the configured model paths)
    listing,          \* os.listdir(BACKGROUNDS_DIR)
    background_files, \* main(): filtered background paths
    objects,          \* bpy.data.objects
    imported_objs,    \* main(): result of import_model
    obj,              \* main(): the selected MESH object, <<>> for None
    model_path,       \* the path handed to import_model in this frame, <<>> before
    loaded,           \* bpy.data.images: images loaded by the generator
    coords,           \* calc_yolo_bbox: coords_2d of the evaluated mesh
    bbox,             \* main(): result of calc_yolo_bbox, <<>> for None
    rendered,         \* main(): accepted count
    frame_num,        \* main(): frame index
    img_dir,          \* files in OUTPUT_DIR/images
    lbl_dir,          \* files in OUTPUT_DIR/labels, with their text
    bg_image,         \* bg_image_node.image, <<>> for None
    cause,            \* which exception ended the run ("" while none)
    output0,          \* frame indices whose files existed before the run
    scene0,           \* bpy.data.objects before the run
    discarded,        \* frame indices of the discarded frames
    urls,             \* background_generator.urls
    i,                \* background_generator: loop index
    requested,        \* background_generator: URLs handed to requests.get, in order
    bg_dir,           \* files in backgrounds/, with their state
    printed           \* background_generator: lines printed

genVars == <<MODELS, listing, background_files, objects, imported_objs, obj,
             model_path, loaded, bg_image, rendered, frame_num, img_dir, lbl_dir, cause,
             output0, scene0, discarded>>
boxVars == <<coords, bbox>>
fetchVars == <<urls, i, requested, bg_dir, printed>>
vars == <<pc, genVars, boxVars, fetchVars>>

(***************************************************************************)
(* Bounds of the model                                                     *)
(***************************************************************************)
NUM_IMAGES == 2      \* target count of the modelled run (1000 in the source)
MaxFrames == 4       \* frames attempted in a run of Spec
MaxModels == 2       \* length of MODELS
Half == 1            \* grid steps in half the normalised image width
MaxPts == 2          \* projected points of a mesh in SpecBbox
MaxUrls == 3         \* length of urls

(***************************************************************************)
(* Program constants                                                       *)
(***************************************************************************)
CLASS_ID == 0
LIGHT_PWR_MIN == 800
LIGHT_PWR_MAX == 1500
SUN_PWR_MIN == 2
SUN_PWR_MAX == 5
PadWidth == 5
Decimals == 6

None == <<>>
Some(x) == <<x>>

(***************************************************************************)
(* Strings as sequences of characters: paths and file names                *)
(***************************************************************************)
LowerChar(c) ==
    CASE c = "G" -> "g" [] c = "L" -> "l" [] c = "B" -> "b" [] c = "T" -> "t"
      [] c = "F" -> "f" [] c = "P" -> "p" [] c = "N" -> "n" [] c = "J" -> "j"
      [] OTHER -> c

Lower(s) == [k \in DOMAIN s |-> LowerChar(s[k])]

\* os.path.splitext(path)[1]: from the last dot on, "" when there is none
\* (or when the only dot leads the name).
SplitExt(path) ==
    LET dots == {k \in DOMAIN path : path[k] = "." /\ k > 1}
    IN  IF dots = {} THEN <<>>
        ELSE LET d == CHOOSE k \in dots : \A j \in dots : j <= k
             IN  SubSeq(path, d, Len(path))

EndsWith(s, suf) ==
    /\ Len(suf) <= Len(s)
    /\ SubSeq(s, Len(s) - Len(suf) + 1, Len(s)) = suf

ImageSuffixes == { <<".", "p", "n", "g">>, <<".", "j", "p", "g">>,
                   <<".", "j", "p", "e", "g">> }

\* main(): the comprehension that builds background_files
BackgroundFiles(names) ==
    {f \in names : \E suf \in ImageSuffixes : EndsWith(Lower(f), suf)}

(***************************************************************************)
(* The inputs of a run                                                     *)
(***************************************************************************)
GlbMesh == <<"a", ".", "g", "l", "b">>            \* parent Empty + mesh
GltfUpperNoMesh == <<"b", ".", "G", "L", "T", "F">> \* only an Empty
ObjFile == <<"c", ".", "o", "b", "j">>
FbxFile == <<"d", ".", "f", "b", "x">>
GltfHollow == <<"e", ".", "g", "l", "t", "f">>    \* a mesh without vertices
ModelPaths == {GlbMesh, GltfUpperNoMesh, ObjFile, FbxFile, GltfHollow}

DirNames == { <<"1", ".", "P", "N", "G">>, <<"n", ".", "t", "x", "t">> }

Object(name, type, data, energy, born) ==
    [name |-> name, type |-> type, data |-> data, energy |-> energy, born |-> born]

\* the startup scene of the host: either empty or camera, cube and lamp
DefaultScene == { Object("Camera", "CAMERA", "-", 0, 0),
                  Object("Cube", "MESH", "-", 0, 0),
                  Object("Light", "LIGHT", "POINT", 1000, 0) }
Scenes == { {}, DefaultScene }

\* indices of the output pairs an earlier run may have left behind
StaleIndices == {1}

\* what the importer creates for a file (bpy.context.selected_objects)
FileObjects(path, now) ==
    IF path = GltfUpperNoMesh THEN << Object("root", "EMPTY", "-", 0, now) >>
    ELSE << Object("root", "EMPTY", "-", 0, now),
            Object("body", "MESH", "-", 0, now) >>

(***************************************************************************)
(* Projected points: x, y in units of 1/One (off-screen left, the edges,    *)
(* the centre, off-screen right), depth z as a sign                        *)
(***************************************************************************)
One == Half + Half
Coord == {0 - 1, 0, Half, One, One + 1}
Depth == {0 - 1, 0, 1}
Points == Coord \X Coord \X Depth

\* the projections the evaluation of one frame may yield for a mesh
ViewSamples(path) ==
    IF path = GltfHollow THEN { {} }
    ELSE { {<<0, One, 1>>, <<Half, 0, 1>>, <<One + 1, Half, 1>>},
           {<<0 - 1, Half, 1>>},
           {<<Half, Half, 0 - 1>>, <<Half, One + 1, 1>>} }

(***************************************************************************)
(* generate_blender.py: helpers                                            *)
(***************************************************************************)
Range(s) == {s[k] : k \in DOMAIN s}

\* clean_scene(): delete everything except cameras and lights
clean_scene(objs) == {o \in objs : o.type \in {"CAMERA", "LIGHT"}}

\* ensure_camera(): reuse a camera of the scene or create one
ensure_camera(objs) ==
    IF \E o \in objs : o.type = "CAMERA" THEN objs
    ELSE objs \cup {Object("Camera", "CAMERA", "-", 0, 0)}

\* 'Fill' in o.name, over the object names of the model
ContainsFill(name) == name \in {"Fill"}

\* ensure_light() without the removal of the previous fill lights
ensure_light_keep(objs, e_sun, e_fill, now) ==
    LET withSun == IF \E o \in objs : o.type = "LIGHT" /\ o.name = "Sun"
                   THEN objs
                   ELSE objs \cup {Object("Sun", "LIGHT", "SUN", e_sun, now)}
    IN  withSun \cup {Object("Fill", "LIGHT", "POINT", e_fill, now)}

\* ensure_light(): drop the fill lights, create the sun if there is none,
\* create a new fill light
ensure_light(objs, e_sun, e_fill, now) ==
    LET kept == {o \in objs : ~(o.type = "LIGHT" /\ ContainsFill(o.name))}
        withSun == IF \E o \in kept : o.type = "LIGHT" /\ o.name = "Sun"
                   THEN kept
                   ELSE kept \cup {Object("Sun", "LIGHT", "SUN", e_sun, now)}
    IN  withSun \cup {Object("Fill", "LIGHT", "POINT", e_fill, now)}

SunEnergies == {SUN_PWR_MIN, SUN_PWR_MAX}
FillEnergies == {LIGHT_PWR_MIN, LIGHT_PWR_MAX}

\* import_model(): the extensions that reach the glTF importer
Supported(path) ==
    Lower(SplitExt(path)) \in { <<".", "g", "l", "b">>, <<".", "g", "l", "t", "f">> }

\* the formats the module docstring announces (OBJ / GLB / GLTF)
Documented(path) ==
    Lower(SplitExt(path)) \in { <<".", "o", "b", "j">>, <<".", "g", "l", "b">>,
                                <<".", "g", "l", "t", "f">> }

\* main(): the first MESH among the imported objects, None when there is none
FirstMesh(objs) ==
    LET ms == {k \in DOMAIN objs : objs[k].type = "MESH"}
    IN  IF ms = {} THEN None
        ELSE Some(objs[CHOOSE k \in ms : \A j \in ms : k <= j])

(***************************************************************************)
(* calc_yolo_bbox                                                          *)
(***************************************************************************)
SetMin(S) == CHOOSE m \in S : \A n \in S : m <= n
SetMax(S) == CHOOSE m \in S : \A n \in S : n <= m

RECURSIVE Pow10(_)
Pow10(n) == IF n = 0 THEN 1 ELSE 10 * Pow10(n - 1)

\* f"{v:.6f}" of v = num/den >= 0, as the integer number of 10^-6 units
Fmt6(num, den) == (2 * num * Pow10(Decimals) + den) \div (2 * den)

\* min(max(v, 0.0), 1.0), v in units of 1/(2*One)
Clamp(v) ==
    LET lo == IF v > 0 THEN v ELSE 0
    IN  IF lo < 2 * One THEN lo ELSE 2 * One

Visible(c) == 0 <= c[1] /\ c[1] <= One /\ 0 <= c[2] /\ c[2] <= One /\ c[3] > 0

\* the label of a non-empty set of visible points; flip: cy = 1 - mid(y)
BoxLabel(vis, flip) ==
    LET xmin == SetMin({c[1] : c \in vis})
        xmax == SetMax({c[1] : c \in vis})
        ymin == SetMin({c[2] : c \in vis})
        ymax == SetMax({c[2] : c \in vis})
        cx == xmin + xmax
        cy == IF flip THEN 2 * One - (ymin + ymax) ELSE ymin + ymax
        w == 2 * (xmax - xmin)
        h == 2 * (ymax - ymin)
    IN  [cls |-> CLASS_ID,
         cx |-> Fmt6(Clamp(cx), 2 * One), cy |-> Fmt6(Clamp(cy), 2 * One),
         w |-> Fmt6(Clamp(w), 2 * One), h |-> Fmt6(Clamp(h), 2 * One)]

\* calc_yolo_bbox() without the flip of the vertical axis
calc_yolo_bbox_noflip(cs) ==
    IF cs = {} THEN None
    ELSE LET vis == {c \in cs : Visible(c)}
         IN  IF vis = {} THEN None ELSE Some(BoxLabel(vis, FALSE))

\* calc_yolo_bbox(): None for a mesh without vertices or without a visible
\* point, else the label line
calc_yolo_bbox(cs) ==
    IF cs = {} THEN None
    ELSE LET vis == {c \in cs : Visible(c)}
         IN  IF vis = {} THEN None ELSE Some(BoxLabel(vis, TRUE))

(***************************************************************************)
(* Output files                                                            *)
(***************************************************************************)
RECURSIVE Digits(_)
Digits(n) == IF n < 10 THEN <<n>> ELSE Append(Digits(n \div 10), n % 10)

\* f"{n:05d}"
ZeroPad(n) ==
    LET d == Digits(n)
    IN  IF Len(d) >= PadWidth THEN d ELSE [k \in 1 .. (PadWidth - Len(d)) |-> 0] \o d

\* f'synth_{frame_num:05d}'
base_filename(n) == [prefix |-> "synth_", digits |-> ZeroPad(n)]

StaleLabel == [cls |-> CLASS_ID, cx |-> 0, cy |-> 0, w |-> 0, h |-> 0]

\* open(path, 'w') followed by write(text): the file holds exactly text
WriteFile(dir, name, text) ==
    {f \in dir : f.name # name} \cup {[name |-> name, text |-> text]}

Names(dir) == {f.name : f \in dir}

(***************************************************************************)
(* generate_blender.py: main()                                             *)
(***************************************************************************)
fetchIdle == urls = <<>> /\ i = 0 /\ requested = <<>> /\ bg_dir = {} /\ printed = <<>>

Init ==
    /\ pc = "start"
    /\ MODELS \in {S \in SUBSET ModelPaths : Cardinality(S) <= MaxModels}
    /\ listing \in SUBSET DirNames
    /\ background_files = {}
    /\ scene0 \in Scenes
    /\ objects = scene0
    /\ imported_objs = <<>>
    /\ obj = None
    /\ model_path = <<>>
    /\ loaded = {}
    /\ bg_image = None
    /\ coords = {}
    /\ bbox = None
    /\ rendered = 0
    /\ frame_num = 0
    /\ output0 \in SUBSET StaleIndices
    /\ img_dir = {[name |-> base_filename(k), text |-> <<"png">>] : k \in output0}
    /\ lbl_dir = {[name |-> base_filename(k), text |-> <<StaleLabel>>] : k \in output0}
    /\ cause = ""
    /\ discarded = {}
    /\ fetchIdle

\* raise: the exception leaves main() and ends the process
Raise(why) == pc' = "aborted" /\ cause' = why

\* the start of main() without the check of the background list
StartNoBackgroundCheck ==
    /\ pc = "start"
    /\ IF MODELS = {}
       THEN /\ Raise("models_empty")
            /\ UNCHANGED <<background_files, objects>>
       ELSE /\ background_files' = BackgroundFiles(listing)
            /\ objects' = ensure_camera(objects)
            /\ pc' = "loop"
            /\ UNCHANGED cause
    /\ UNCHANGED <<MODELS, listing, imported_objs, obj, model_path, loaded, bg_image,
                   rendered, frame_num, img_dir, lbl_dir, output0, scene0, discarded>>
    /\ UNCHANGED <<boxVars, fetchVars>>

\* lines 223-241: the two precondition checks and the setup
Start ==
    /\ pc = "start"
    /\ IF MODELS = {}
       THEN /\ Raise("models_empty")
            /\ UNCHANGED <<background_files, objects>>
       ELSE /\ background_files' = BackgroundFiles(listing)
            /\ IF BackgroundFiles(listing) = {}
               THEN Raise("no_backgrounds") /\ UNCHANGED objects
               ELSE /\ objects' = ensure_camera(objects)
                    /\ pc' = "loop"
                    /\ UNCHANGED cause
    /\ UNCHANGED <<MODELS, listing, imported_objs, obj, model_path, loaded, bg_image,
                   rendered, frame_num, img_dir, lbl_dir, output0, scene0, discarded>>
    /\ UNCHANGED <<boxVars, fetchVars>>

\* the loop condition with the comparison off by one
LoopCondLe(r) == r <= NUM_IMAGES

\* line 242: while rendered < NUM_IMAGES
LoopCond(r) == r < NUM_IMAGES

\* the frame index after a discarded frame. In a run of FairSpec (live) the
\* index counts only the first discard of a run and then stays, so that an
\* endless sequence of discards is a cycle of the finite model.
Advance(n, live) ==
    IF live /\ n > rendered THEN n ELSE n + 1

\* line 289: the loop is left
Finish ==
    /\ pc = "loop"
    /\ ~LoopCond(rendered)
    /\ pc' = "done"
    /\ UNCHANGED <<genVars, boxVars, fetchVars>>

\* lines 243-245: clean_scene(), import_model(random.choice(MODELS))
ImportOf(path, live) ==
    /\ pc = "loop"
    /\ LoopCond(rendered)
    /\ live \/ frame_num < MaxFrames
    /\ path \in MODELS
    /\ model_path' = path
    /\ IF Supported(path)
       THEN /\ imported_objs' = FileObjects(path, frame_num)
            /\ objects' = clean_scene(objects) \cup Range(FileObjects(path, frame_num))
            /\ pc' = "imported"
            /\ UNCHANGED cause
       ELSE /\ objects' = clean_scene(objects)
            /\ Raise("unsupported")
            /\ UNCHANGED imported_objs
    /\ UNCHANGED <<MODELS, listing, background_files, obj, loaded, bg_image, rendered,
                   frame_num, img_dir, lbl_dir, output0, scene0, discarded>>
    /\ UNCHANGED <<boxVars, fetchVars>>

Import(live) == \E path \in ModelPaths : ImportOf(path, live)

\* lines 249-259: no MESH among the imported objects, the frame is skipped
NoMesh(live) ==
    /\ pc = "imported"
    /\ FirstMesh(imported_objs) = None
    /\ obj' = None
    /\ frame_num' = Advance(frame_num, live)
    /\ discarded' = discarded \cup {frame_num}
    /\ pc' = "loop"
    /\ UNCHANGED <<MODELS, listing, background_files, objects, imported_objs,
                   model_path, loaded, bg_image, rendered, img_dir, lbl_dir, cause,
                   output0, scene0>>
    /\ UNCHANGED <<boxVars, fetchVars>>

\* lines 249-267 and 187-198: the mesh is selected, object and camera are
\* randomised, the lights refreshed, a background is loaded and bound, the
\* scene evaluated; the sampled transforms show in the projected points cs
SetupOf(cs) ==
    /\ pc = "imported"
    /\ FirstMesh(imported_objs) # None
    /\ obj' = FirstMesh(imported_objs)
    /\ \E e_sun \in SunEnergies, e_fill \in FillEnergies :
          objects' = ensure_light(objects, e_sun, e_fill, frame_num)
    /\ \E f \in background_files :
          /\ loaded' = loaded \cup {[file |-> f, born |-> frame_num]}
          /\ bg_image' = Some([file |-> f, born |-> frame_num])
    /\ cs \in ViewSamples(model_path)
    /\ coords' = cs
    /\ pc' = "evaluated"
    /\ UNCHANGED <<MODELS, listing, background_files, imported_objs, model_path,
                   rendered, frame_num, img_dir, lbl_dir, cause, output0, scene0,
                   discarded>>
    /\ UNCHANGED <<bbox, fetchVars>>

Setup == \E cs \in ViewSamples(model_path) : SetupOf(cs)

\* bpy.data.images.remove(bg_image_node.image)
Release(imgs, img) == imgs \ Range(img)

\* the discard of an invisible object that also counts the frame as accepted
NotVisibleCounted(live) ==
    /\ pc = "evaluated"
    /\ calc_yolo_bbox(coords) = None
    /\ bbox' = None
    /\ frame_num' = Advance(frame_num, live)
    /\ rendered' = rendered + 1
    /\ discarded' = discarded \cup {frame_num}
    /\ loaded' = Release(loaded, bg_image)
    /\ bg_image' = None
    /\ pc' = "loop"
    /\ UNCHANGED <<MODELS, listing, background_files, objects, imported_objs, obj,
                   model_path, img_dir, lbl_dir, cause, output0, scene0>>
    /\ UNCHANGED <<coords, fetchVars>>

\* the discard of an invisible object without the release of the background
NotVisibleKeep(live) ==
    /\ pc = "evaluated"
    /\ calc_yolo_bbox(coords) = None
    /\ bbox' = None
    /\ frame_num' = Advance(frame_num, live)
    /\ discarded' = discarded \cup {frame_num}
    /\ pc' = "loop"
    /\ UNCHANGED <<MODELS, listing, background_files, objects, imported_objs, obj,
                   model_path, loaded, bg_image, rendered, img_dir, lbl_dir, cause,
                   output0, scene0>>
    /\ UNCHANGED <<coords, fetchVars>>

\* lines 269-274: calc_yolo_bbox returns None, the frame is discarded
NotVisible(live) ==
    /\ pc = "evaluated"
    /\ calc_yolo_bbox(coords) = None
    /\ bbox' = None
    /\ frame_num' = Advance(frame_num, live)
    /\ discarded' = discarded \cup {frame_num}
    /\ loaded' = Release(loaded, bg_image)
    /\ bg_image' = None
    /\ pc' = "loop"
    /\ UNCHANGED <<MODELS, listing, background_files, objects, imported_objs, obj,
                   model_path, rendered, img_dir, lbl_dir, cause, output0, scene0>>
    /\ UNCHANGED <<coords, fetchVars>>

\* lines 269-270: calc_yolo_bbox returns a label, the frame goes on to render
Accept ==
    /\ pc = "evaluated"
    /\ calc_yolo_bbox(coords) # None
    /\ bbox' = calc_yolo_bbox(coords)
    /\ pc' = "render"
    /\ UNCHANGED <<genVars, coords, fetchVars>>

\* lines 276-278: bpy.ops.render.render(write_still=True) writes the image
RenderOk ==
    /\ pc = "render"
    /\ img_dir' = WriteFile(img_dir, base_filename(frame_num), <<"png">>)
    /\ pc' = "label"
    /\ UNCHANGED <<MODELS, listing, background_files, objects, imported_objs, obj,
                   model_path, loaded, bg_image, rendered, frame_num, lbl_dir, cause,
                   output0, scene0, discarded>>
    /\ UNCHANGED <<boxVars, fetchVars>>

\* line 278: the render raises, no image is written
RenderFail ==
    /\ pc = "render"
    /\ Raise("render_failed")
    /\ UNCHANGED <<MODELS, listing, background_files, objects, imported_objs, obj,
                   model_path, loaded, bg_image, rendered, frame_num, img_dir, lbl_dir,
                   output0, scene0, discarded>>
    /\ UNCHANGED <<boxVars, fetchVars>>

\* the label write that counts the frame without advancing the frame index
LabelOkSameIndex(live) ==
    /\ pc = "label"
    /\ lbl_dir' = WriteFile(lbl_dir, base_filename(frame_num), bbox)
    /\ loaded' = Release(loaded, bg_image)
    /\ bg_image' = None
    /\ rendered' = rendered + 1
    /\ pc' = "loop"
    /\ UNCHANGED <<MODELS, listing, background_files, objects, imported_objs, obj,
                   model_path, frame_num, img_dir, cause, output0, scene0, discarded>>
    /\ UNCHANGED <<boxVars, fetchVars>>

\* lines 280-287: the label is written, the background released, both
\* counters advance
LabelOk(live) ==
    /\ pc = "label"
    /\ lbl_dir' = WriteFile(lbl_dir, base_filename(frame_num), bbox)
    /\ loaded' = Release(loaded, bg_image)
    /\ bg_image' = None
    /\ rendered' = rendered + 1
    /\ frame_num' = frame_num + 1
    /\ pc' = "loop"
    /\ UNCHANGED <<MODELS, listing, background_files, objects, imported_objs, obj,
                   model_path, img_dir, cause, output0, scene0, discarded>>
    /\ UNCHANGED <<boxVars, fetchVars>>

\* lines 280-281: open() raises (the file is not touched) or write() raises
\* after open() truncated or created the file
LabelFail ==
    /\ pc = "label"
    /\ \/ UNCHANGED lbl_dir
       \/ lbl_dir' = WriteFile(lbl_dir, base_filename(frame_num), <<>>)
    /\ Raise("label_failed")
    /\ UNCHANGED <<MODELS, listing, background_files, objects, imported_objs, obj,
                   model_path, loaded, bg_image, rendered, frame_num, img_dir,
                   output0, scene0, discarded>>
    /\ UNCHANGED <<boxVars, fetchVars>>

Frame(live) ==
    \/ Import(live)
    \/ NoMesh(live)
    \/ Setup
    \/ NotVisible(live)
    \/ Accept
    \/ RenderOk
    \/ RenderFail
    \/ LabelOk(live)
    \/ LabelFail

Next ==
    \/ Start
    \/ Finish
    \/ Frame(FALSE)

Spec == Init /\ [][Next]_vars

\* the run of FairSpec: the frame index saturates (see Advance)
NextLive ==
    \/ Start
    \/ Finish
    \/ Frame(TRUE)

\* a model that can yield an accepted frame: it imports, holds a mesh, and
\* some evaluation of it shows a visible point
Usable(path) ==
    /\ Supported(path)
    /\ FirstMesh(FileObjects(path, 0)) # None
    /\ \E cs \in ViewSamples(path) : calc_yolo_bbox(cs) # None

ImportUsable == \E path \in ModelPaths : Usable(path) /\ ImportOf(path, TRUE)

SetupVisible ==
    \E cs \in ViewSamples(model_path) : calc_yolo_bbox(cs) # None /\ SetupOf(cs)

\* the script runs on while it can (WF); random.choice and random.uniform
\* keep yielding the accepted outcome whenever it is possible (SF)
\* the model lists of FairSpec: every list of models the importer takes, and
\* one with a model it refuses
LiveModelLists ==
    (SUBSET {GlbMesh, GltfUpperNoMesh, GltfHollow}) \cup { {GlbMesh, ObjFile} }

\* FairSpec starts from a fresh scene and an empty output location, with
\* background images present
InitLive ==
    /\ Init
    /\ scene0 = {}
    /\ output0 = {}
    /\ listing = DirNames
    /\ MODELS \in LiveModelLists

FairSpec ==
    /\ InitLive
    /\ [][NextLive]_vars
    /\ WF_vars(NextLive)
    /\ SF_vars(ImportUsable)
    /\ SF_vars(SetupVisible)

(***************************************************************************)
(* calc_yolo_bbox as a function of the projected points                    *)
(***************************************************************************)
genIdle ==
    /\ MODELS = {} /\ listing = {} /\ background_files = {} /\ objects = {}
    /\ imported_objs = <<>> /\ obj = None /\ model_path = <<>> /\ loaded = {}
    /\ bg_image = None /\ rendered = 0 /\ frame_num = 0 /\ img_dir = {}
    /\ lbl_dir = {} /\ cause = "" /\ output0 = {} /\ scene0 = {}
    /\ discarded = {}

RECURSIVE PointSets(_)
PointSets(n) ==
    IF n = 0 THEN { {} }
    ELSE LET P == PointSets(n - 1)
         IN  P \cup {S \cup {p} : S \in P, p \in Points}

InitBbox ==
    /\ pc = "bbox_call"
    /\ coords \in PointSets(MaxPts)
    /\ bbox = None
    /\ genIdle
    /\ fetchIdle

CalcBbox ==
    /\ pc = "bbox_call"
    /\ bbox' = calc_yolo_bbox(coords)
    /\ pc' = "bbox_return"
    /\ UNCHANGED <<genVars, coords, fetchVars>>

NextBbox == CalcBbox

SpecBbox == InitBbox /\ [][NextBbox]_vars

(***************************************************************************)
(* background_generator.py                                                 *)
(***************************************************************************)
UrlLists == {[k \in 1 .. n |-> k] : n \in 0 .. MaxUrls}

InitFetch ==
    /\ pc = "fetch_get"
    /\ urls \in UrlLists
    /\ i = 0
    /\ requested = <<>>
    /\ bg_dir = {}
    /\ printed = <<>>
    /\ coords = {}
    /\ bbox = None
    /\ genIdle

\* an except clause that ends the loop at the first error
OnErrorQuit(what) ==
    /\ printed' = Append(printed, [line |-> "error", i |-> i, what |-> what])
    /\ pc' = "fetch_done"
    /\ UNCHANGED i

\* lines 19-20 and 12: the except clause prints, the for loop goes on with
\* the next url
OnError(what) ==
    /\ printed' = Append(printed, [line |-> "error", i |-> i, what |-> what])
    /\ i' = i + 1
    /\ pc' = "fetch_get"

\* line 14: requests.get(url) returns a response or raises
FetchGet ==
    /\ pc = "fetch_get"
    /\ i < Len(urls)
    /\ requested' = Append(requested, urls[i + 1])
    /\ \/ pc' = "fetch_status" /\ UNCHANGED <<i, printed>>
       \/ OnError("get")
    /\ UNCHANGED <<urls, bg_dir, genVars, boxVars>>

\* line 15: r.raise_for_status()
FetchStatus ==
    /\ pc = "fetch_status"
    /\ \/ pc' = "fetch_open" /\ UNCHANGED <<i, printed>>
       \/ OnError("status")
    /\ UNCHANGED <<urls, requested, bg_dir, genVars, boxVars>>

\* line 16: open(f"backgrounds/bg_{i}.jpg", "wb") creates the empty file
FetchOpen ==
    /\ pc = "fetch_open"
    /\ \/ /\ bg_dir' = WriteFile(bg_dir, i, <<>>)
          /\ pc' = "fetch_write"
          /\ UNCHANGED <<i, printed>>
       \/ OnError("open") /\ UNCHANGED bg_dir
    /\ UNCHANGED <<urls, requested, genVars, boxVars>>

\* lines 17-18: f.write(r.content), then the success line
FetchWrite ==
    /\ pc = "fetch_write"
    /\ \/ /\ bg_dir' = WriteFile(bg_dir, i, <<urls[i + 1]>>)
          /\ printed' = Append(printed, [line |-> "ok", i |-> i, what |-> "-"])
          /\ i' = i + 1
          /\ pc' = "fetch_get"
       \/ OnError("write") /\ UNCHANGED bg_dir
    /\ UNCHANGED <<urls, requested, genVars, boxVars>>

\* line 12: the for loop is exhausted
FetchEnd ==
    /\ pc = "fetch_get"
    /\ i = Len(urls)
    /\ pc' = "fetch_done"
    /\ UNCHANGED <<genVars, boxVars, fetchVars>>

NextFetch ==
    \/ FetchGet
    \/ FetchStatus
    \/ FetchOpen
    \/ FetchWrite
    \/ FetchEnd

SpecFetch == InitFetch /\ [][NextFetch]_vars

(***************************************************************************)
(* Properties                                                              *)
(***************************************************************************)
Lights(objs) == {o \in objs : o.type = "LIGHT"}
Suns(objs) == {o \in Lights(objs) : o.name = "Sun" /\ o.data = "SUN"}
Fills(objs) == {o \in Lights(objs) : o.name = "Fill" /\ o.data = "POINT"}
ThisRun(dir) == {f \in dir : f.name \notin {base_filename(k) : k \in output0}}

\* C1: when main() ends normally on an initially empty output location,
\* exactly NUM_IMAGES image files and NUM_IMAGES label files exist, image and
\* label names match one to one, and the files carry NUM_IMAGES distinct
\* frame indices, none of them the index of a discarded frame.
C1_AcceptedPairs ==
    (pc = "done" /\ output0 = {}) =>
        /\ Cardinality(img_dir) = NUM_IMAGES
        /\ Cardinality(lbl_dir) = NUM_IMAGES
        /\ Names(img_dir) = Names(lbl_dir)
        /\ \E K \in SUBSET (0 .. frame_num - 1) :
              /\ Cardinality(K) = NUM_IMAGES
              /\ K \cap discarded = {}
              /\ Names(img_dir) = {base_filename(k) : k \in K}

C1_Witness ==
    /\ pc = "done"
    /\ output0 = {}
    /\ discarded # {}
    /\ Cardinality(img_dir) = NUM_IMAGES

\* C2: a frame discarded because the import holds no MESH object, or because
\* no projected point lies in [0,1]x[0,1] with positive depth, writes no image
\* and no label, leaves rendered unchanged, advances frame_num by exactly 1,
\* and the loop goes on with a new attempt.
C2_Discard ==
    [][ ( \/ pc = "imported" /\ \A k \in DOMAIN imported_objs :
                                   imported_objs[k].type # "MESH"
          \/ pc = "evaluated" /\ \A c \in coords :
                ~(0 <= c[1] /\ c[1] <= One /\ 0 <= c[2] /\ c[2] <= One /\ c[3] > 0) )
        => /\ img_dir' = img_dir
           /\ lbl_dir' = lbl_dir
           /\ rendered' = rendered
           /\ frame_num' = frame_num + 1
           /\ pc' = "loop"
           /\ rendered' < NUM_IMAGES ]_vars

C2_Witness ==
    /\ pc = "loop"
    /\ Cardinality(discarded) >= 2
    /\ frame_num = rendered + Cardinality(discarded)
    /\ rendered > 0

\* C3: at every loop-iteration boundary and in every state in which the run
\* has stopped (normally, or by a failed render or label write), every image
\* file has a label file of the same base name and vice versa, and rendered is
\* the number of such pairs (stated for an initially empty output location).
C3_AtomicPairs ==
    (output0 = {} /\ pc \in {"loop", "done", "aborted"}) =>
        /\ Names(img_dir) = Names(lbl_dir)
        /\ rendered = Cardinality(img_dir)

\* C4: rendered never exceeds NUM_IMAGES, main() never ends normally with
\* rendered < NUM_IMAGES, and when no fatal error occurs and an accepted
\* attempt is possible (and, by fairness, keeps occurring), main() eventually
\* ends with rendered = NUM_IMAGES.
C4_Termination ==
    /\ [](rendered <= NUM_IMAGES)
    /\ [](pc = "done" => rendered = NUM_IMAGES)
    /\ ((\E path \in MODELS : Usable(path)) /\ [](pc # "aborted"))
          => <>(pc = "done" /\ rendered = NUM_IMAGES)

C4_Witness ==
    /\ pc = "done"
    /\ rendered = NUM_IMAGES
    /\ discarded # {}

\* the state part of C5 for a given set of fatal causes: every abort has one of
\* the causes; an empty model list or background set aborts before any frame
\* and before any file is written; an unsupported extension aborts in the frame
\* that chose it, with no file written for that frame
FatalInv(causes) ==
    /\ pc = "aborted" => cause \in causes
    /\ (MODELS = {} /\ pc # "start") => (pc = "aborted" /\ cause = "models_empty")
    /\ (MODELS # {} /\ pc # "start"
          /\ \A f \in listing : \A suf \in ImageSuffixes : ~EndsWith(Lower(f), suf))
       => (pc = "aborted" /\ cause = "no_backgrounds")
    /\ cause \in {"models_empty", "no_backgrounds"} =>
          /\ frame_num = 0 /\ rendered = 0 /\ model_path = <<>>
          /\ ThisRun(img_dir) = {} /\ ThisRun(lbl_dir) = {}
    /\ (model_path # <<>>
          /\ Lower(SplitExt(model_path)) \notin
                { <<".", "g", "l", "b">>, <<".", "g", "l", "t", "f">> })
       => /\ pc = "aborted" /\ cause = "unsupported"
          /\ base_filename(frame_num) \notin Names(ThisRun(img_dir))
          /\ base_filename(frame_num) \notin Names(ThisRun(lbl_dir))
          /\ Cardinality(ThisRun(img_dir)) <= rendered

\* C5 as claimed: exactly three conditions abort the run (empty model list,
\* empty background set, unsupported model extension), each as described.
C5_ExactlyThreeFatal ==
    FatalInv({"models_empty", "no_backgrounds", "unsupported"})

\* C5 as amended: the generator itself raises for the three conditions, each
\* as described; a failed render or label write aborts the run as well; after
\* any abort the run takes no further step (no frame is attempted, no counter
\* advances, no file changes).
FiveCauses ==
    {"models_empty", "no_backgrounds", "unsupported", "render_failed", "label_failed"}

C5_FatalAborts ==
    /\ FatalInv(FiveCauses)
    /\ pc = "aborted" => ~ENABLED Next

C5_Witness ==
    /\ pc = "aborted"
    /\ cause = "unsupported"
    /\ rendered > 0
    /\ Cardinality(ThisRun(img_dir)) = rendered

\* C6: a model path whose extension is .obj, .glb or .gltf is imported
\* instead of raising the fatal 'Unsupported model format' error.
C6_DocumentedFormatsLoad ==
    (model_path # <<>> /\ Documented(model_path)) => cause # "unsupported"

\* C7: for every non-empty set of projected points calc_yolo_bbox returns None
\* iff no point has 0 <= x <= 1, 0 <= y <= 1 and positive depth; otherwise the
\* label has class CLASS_ID and, with the extremes taken over the points that
\* pass the filter, cx = clamp((xmin+xmax)/2), cy = clamp(1 - (ymin+ymax)/2),
\* w = clamp(xmax-xmin), h = clamp(ymax-ymin) to six decimals, all in [0,1].
Near(micro, num, den) ==
    LET d == micro * den - num * Pow10(Decimals)
    IN  2 * d <= den /\ 0 - den <= 2 * d

Clip(num, den) == IF num < 0 THEN 0 ELSE IF num > den THEN den ELSE num

C7_BboxLabel ==
    (pc = "bbox_return" /\ coords # {}) =>
        LET seen == {c \in coords : c[1] \in 0 .. One /\ c[2] \in 0 .. One /\ c[3] >= 1}
        IN  /\ bbox = None <=> seen = {}
            /\ bbox # None =>
                 \E lo \in seen, hi \in seen, bot \in seen, top \in seen :
                    /\ \A c \in seen : /\ lo[1] <= c[1] /\ c[1] <= hi[1]
                                       /\ bot[2] <= c[2] /\ c[2] <= top[2]
                    /\ bbox[1].cls = CLASS_ID
                    /\ Near(bbox[1].cx, Clip(lo[1] + hi[1], 2 * One), 2 * One)
                    /\ Near(bbox[1].cy, Clip(2 * One - (bot[2] + top[2]), 2 * One),
                            2 * One)
                    /\ Near(bbox[1].w, Clip(hi[1] - lo[1], One), One)
                    /\ Near(bbox[1].h, Clip(top[2] - bot[2], One), One)
                    /\ \A v \in {bbox[1].cx, bbox[1].cy, bbox[1].w, bbox[1].h} :
                          0 <= v /\ v <= Pow10(Decimals)

C7_Witness ==
    /\ pc = "bbox_return"
    /\ bbox # None
    /\ \E c \in coords : c[1] > One \/ c[3] <= 0
    /\ bbox[1].cy = 0
    /\ bbox[1].cx * 2 = Pow10(Decimals)
    /\ bbox[1].h = 0

\* C8: at the start of every loop iteration and at normal termination no
\* background image loaded by the generator is still held, and at most one
\* loaded background image exists at any point of a run.
C8_BackgroundReleased ==
    /\ pc \in {"loop", "done"} => (loaded = {} /\ bg_image = None)
    /\ Cardinality(loaded) <= 1

C8_Witness ==
    /\ pc = "loop"
    /\ Supported(model_path)
    /\ FirstMesh(imported_objs) # None
    /\ Cardinality(discarded) >= 2
    /\ rendered > 0
    /\ loaded = {}

\* C9: starting from a scene without lights, after every call of ensure_light
\* exactly one 'Sun' and exactly one 'Fill' light exist; an existing Sun is
\* kept as it is (never recreated, its energy never resampled), the Fill light
\* is a new object on every call, and the lights never number more than two.
C9_Lighting ==
    [][ Lights(scene0) = {} =>
          /\ (pc = "imported" /\ pc' = "evaluated") =>
                /\ Cardinality(Suns(objects')) = 1
                /\ Cardinality(Fills(objects')) = 1
                /\ Lights(objects') = Suns(objects') \cup Fills(objects')
                /\ Fills(objects') \cap objects = {}
                /\ Suns(objects) # {} => Suns(objects') = Suns(objects)
          /\ Suns(objects) \subseteq objects'
          /\ Cardinality(Lights(objects')) <= 2 ]_vars

C9_Witness ==
    /\ Lights(scene0) = {}
    /\ pc = "evaluated"
    /\ \E s \in Suns(objects), f \in Fills(objects) :
          s.born + 2 <= f.born /\ s.energy = SUN_PWR_MAX /\ f.energy = LIGHT_PWR_MIN

\* C10 as claimed: once the download or file write for one URL fails, no later
\* URL is requested and no later background file is written.
C10_QuitsOnFirstError ==
    \A k \in DOMAIN printed :
        printed[k].line = "error" =>
            /\ Len(requested) <= printed[k].i + 1
            /\ \A f \in bg_dir : f.name <= printed[k].i

\* C10 as amended: an error for one URL is caught and reported and the loop
\* goes on with the next URL: every URL is requested exactly once, in order,
\* whether or not an earlier one failed, one line is printed per URL, and the
\* script ends only after the last URL.
C10_ContinuesAfterError ==
    /\ requested = SubSeq(urls, 1, Len(requested))
    /\ Len(printed) = i
    /\ \A k \in DOMAIN printed : printed[k].i = k - 1
    /\ Len(requested) = (IF pc \in {"fetch_get", "fetch_done"} THEN i ELSE i + 1)
    /\ pc = "fetch_done" => requested = urls

C10_Witness ==
    /\ pc = "fetch_done"
    /\ Len(urls) >= 2
    /\ printed[1].line = "error"
    /\ \E f \in bg_dir : f.name = 1 /\ f.text # <<>>

====
